---- MODULE Spec2Model ----
(***************************************************************************)
(* FASTA sequence length analysis (src/count_long_sequences.py).           *)
(*                                                                         *)
(* main() validates the input path, runs count_long_sequences (one pass    *)
(* over the records the FASTA parser yields), draws the chart, and then    *)
(* generate_report writes the report: header, headline figures, global     *)
(* statistics, the six-bucket length distribution and the numbered list    *)
(* of long identifiers.                                                    *)
(*                                                                         *)
(* A sequence body is a sequence of one-character strings.  A bin edge is  *)
(* a record [inf, v]: inf = TRUE stands for float('inf').  Python lists    *)
(* are 0-based, the sequences here 1-based: bins[i] of the source is       *)
(* bins[i+1] here.                                                         *)
(***************************************************************************)
EXTENDS Integers, Sequences, FiniteSets

VARIABLES
    pc,           \* position of main(): validate, analyse, returned, report,
                  \* opened, bin, ids, summary, done
    outcome,      \* running, ok, or how the run ended
    min_length,   \* args.min_length, the threshold
    records,      \* the records the parser has yielded to the loop so far
    total_count, long_count, long_ids, all_lengths,
    report_file,  \* absent, open (being written), partial, closed
    sections,     \* the report sections written so far, in order
    summary,      \* the headline figures written to the report
    stats,        \* the global statistics written to the report
    bin_counts,   \* the binning loop's counters, len(bins) of them
    bi,           \* number of lengths the binning loop has handled
    dist_lines,   \* the distribution rows written
    id_lines,     \* the lines of the identifier listing written
    li            \* number of identifiers the listing loop has handled

vars == <<pc, outcome, min_length, records, total_count, long_count, long_ids,
          all_lengths, report_file, sections, summary, stats, bin_counts, bi,
          dist_lines, id_lines, li>>

analysis == <<total_count, long_count, long_ids, all_lengths>>
written == <<report_file, sections, summary, stats, dist_lines, id_lines>>
loops == <<bin_counts, bi, li>>

----------------------------------------------------------------------------
\* Bounds of the model.

\* Most records one input file holds in the pipeline specification.
MaxRecords == 2
\* Longest body among the exhaustively enumerated bodies.
MaxBody == 3
\* Most lengths in the list handed to the binning loop in SpecBin.
MaxLens == 2
\* Most long identifiers in the list handed to the listing loop in SpecList.
MaxIds == 101

GAP == "-"
Alphabet == {"A", GAP}
Ids == {"seq1", "seq2"}

\* The bodies of the documented scenarios: "AC--GT", "ACGT--", "MK--VLA-".
ExampleBodies ==
    { <<"A", "C", "-", "-", "G", "T">>,
      <<"A", "C", "G", "T", "-", "-">>,
      <<"M", "K", "-", "-", "V", "L", "A", "-">> }

Bodies == (UNION { [1..n -> Alphabet] : n \in 0..MaxBody }) \cup ExampleBodies

\* Thresholds of the pipeline specification: below every length, and equal
\* to lengths that occur.
Thresholds == {-1, 2, 4}

\* Lengths and thresholds of the binning specification: every bin edge, its
\* neighbours, and thresholds inside and outside (300, 500).
LengthSamples == {0, 60, 99, 100, 250, 299, 300, 350, 428, 430, 499, 500, 550,
                  600, 999, 1000, 1200, 1500}
ThresholdSamples == {-5, 0, 50, 200, 300, 428, 500, 600, 1000, 1500}

----------------------------------------------------------------------------
\* Arithmetic helpers for the builtins the source calls.

\* sum(s), by halves.
RECURSIVE SumSeq(_)
SumSeq(s) ==
    IF s = <<>> THEN 0
    ELSE IF Len(s) = 1 THEN s[1]
    ELSE LET h == Len(s) \div 2
         IN  SumSeq(SubSeq(s, 1, h)) + SumSeq(SubSeq(s, h + 1, Len(s)))

MinSeq(s) == CHOOSE x \in { s[i] : i \in DOMAIN s } :
                 \A j \in DOMAIN s : x <= s[j]

MaxSeq(s) == CHOOSE x \in { s[i] : i \in DOMAIN s } :
                 \A j \in DOMAIN s : x >= s[j]

\* sorted(s): its k-th element is the value with fewer than k elements
\* below it and at least k elements not above it.
Sorted(s) ==
    [ k \in DOMAIN s |->
        CHOOSE x \in { s[i] : i \in DOMAIN s } :
            /\ Cardinality({ i \in DOMAIN s : s[i] < x }) < k
            /\ k <= Cardinality({ i \in DOMAIN s : s[i] <= x }) ]

\* np.median, as the fraction num/den: the middle element, or the mean of
\* the two middle elements.
Median(s) ==
    LET srt == Sorted(s)
        n == Len(s)
    IN  IF n % 2 = 1 THEN [num |-> srt[(n + 1) \div 2], den |-> 1]
        ELSE [num |-> srt[n \div 2] + srt[n \div 2 + 1], den |-> 2]

----------------------------------------------------------------------------
\* count_long_sequences

\* str.strip("-"): a wrong normalisation that drops only leading and
\* trailing gaps.
RECURSIVE lstrip_gap(_)
lstrip_gap(seq) == IF seq # <<>> /\ Head(seq) = GAP THEN lstrip_gap(Tail(seq))
                   ELSE seq

RECURSIVE rstrip_gap(_)
rstrip_gap(seq) == IF seq # <<>> /\ seq[Len(seq)] = GAP
                   THEN rstrip_gap(SubSeq(seq, 1, Len(seq) - 1))
                   ELSE seq

cleaned_seq_strip(seq) == rstrip_gap(lstrip_gap(seq))

\* str(record.seq).replace("-", "")
RECURSIVE cleaned_seq(_)
cleaned_seq(seq) ==
    IF seq = <<>> THEN <<>>
    ELSE IF Head(seq) = GAP THEN cleaned_seq(Tail(seq))
    ELSE <<Head(seq)>> \o cleaned_seq(Tail(seq))

seq_length(seq) == Len(cleaned_seq(seq))

is_long_inclusive(length, threshold) == length >= threshold

\* if seq_length > min_length
is_long(length, threshold) == length > threshold

append_id_unique(ids, id) ==
    IF \E k \in DOMAIN ids : ids[k] = id THEN ids ELSE Append(ids, id)

\* long_ids.append(record.id)
append_id(ids, id) == Append(ids, id)

----------------------------------------------------------------------------
\* generate_report: figures, bins and the binning loop

Fin(n) == [inf |-> FALSE, v |-> n]
PosInf == [inf |-> TRUE, v |-> 0]

\* edge <= length, and length < edge, for an integer length
EdgeLe(edge, length) == ~edge.inf /\ edge.v <= length
LtEdge(length, edge) == edge.inf \/ length < edge.v
\* length >= edge
GeEdge(length, edge) == ~edge.inf /\ length >= edge.v

\* percentage = long_count / total_count * 100 if total_count > 0 else 0
percentage(long, total) ==
    IF total > 0 THEN [num |-> long * 100, den |-> total]
    ELSE [num |-> 0, den |-> 1]

\* The edges in ascending order: what sorting the list would give.
bins_sorted(threshold) ==
    LET lo == Sorted(<<0, 100, 300, threshold, 500, 1000>>)
    IN  [i \in 1..6 |-> Fin(lo[i])] \o <<PosInf>>

\* bins = [0, 100, 300, args.min_length, 500, 1000, float('inf')]
bins(threshold) ==
    <<Fin(0), Fin(100), Fin(300), Fin(threshold), Fin(500), Fin(1000), PosInf>>

\* labels: "<100", "100-300", "300-T", "T-500", "500-1000", ">1000", each
\* kept as the pair of bounds its text names ("<100" has the lower bound 0
\* of a length).
labels(threshold) ==
    << [lo |-> Fin(0), hi |-> Fin(100)],
       [lo |-> Fin(100), hi |-> Fin(300)],
       [lo |-> Fin(300), hi |-> Fin(threshold)],
       [lo |-> Fin(threshold), hi |-> Fin(500)],
       [lo |-> Fin(500), hi |-> Fin(1000)],
       [lo |-> Fin(1000), hi |-> PosInf] >>

in_range_open_lower(bs, i, length) ==
    (~bs[i].inf /\ bs[i].v < length) /\ LtEdge(length, bs[i + 1])

\* bins[i] <= length < bins[i+1]
in_range(bs, i, length) == EdgeLe(bs[i], length) /\ LtEdge(length, bs[i + 1])

\* The inner for loop with its break: the first i that matches, 0 if none.
first_match(bs, length) ==
    LET hits == { i \in 1..(Len(bs) - 1) : in_range(bs, i, length) }
    IN  IF hits = {} THEN 0
        ELSE CHOOSE i \in hits : \A j \in hits : i <= j

\* The loop body without its break: every matching range is counted.
bin_update_nobreak(counts, bs, length) ==
    [ i \in DOMAIN counts |->
        IF i < Len(bs) /\ in_range(bs, i, length) THEN counts[i] + 1
        ELSE IF i = Len(bs) /\ GeEdge(length, bs[Len(bs)]) THEN counts[i] + 1
        ELSE counts[i] ]

\* One iteration of "for length in all_lengths": the inner loop, and its
\* else clause when no range matched.
bin_update(counts, bs, length) ==
    LET i == first_match(bs, length)
    IN  IF i # 0 THEN [counts EXCEPT ![i] = @ + 1]
        ELSE IF GeEdge(length, bs[Len(bs)])
             THEN [counts EXCEPT ![Len(bs)] = @ + 1]
             ELSE counts

\* for label, count in zip(labels, bin_counts): one row per pair
dist_rows(lbls, counts, total) ==
    LET n == IF Len(lbls) < Len(counts) THEN Len(lbls) ELSE Len(counts)
    IN  [ i \in 1..n |-> [label |-> lbls[i], count |-> counts[i],
                          percent |-> [num |-> counts[i] * 100, den |-> total]] ]

\* The headline figures written after the header.
summary_of(long, total) ==
    [total |-> total, long |-> long, percentage |-> percentage(long, total)]

\* min, max, mean and median of a non-empty list.
stats_of(lengths) ==
    [min |-> MinSeq(lengths), max |-> MaxSeq(lengths),
     mean |-> [num |-> SumSeq(lengths), den |-> Len(lengths)],
     median |-> Median(lengths)]

NoSummary == [total |-> 0, long |-> 0, percentage |-> [num |-> 0, den |-> 1]]
NoStats == [min |-> 0, max |-> 0, mean |-> [num |-> 0, den |-> 1],
            median |-> [num |-> 0, den |-> 1]]

\* if (i+1) % 50 == 0: a separator follows every 50th entry
SeparatorEvery == 50

separator_due_zero_based(k) == (k - 1) % SeparatorEvery = 0

\* k is the 1-based number of the entry just written (i+1 in the source)
separator_due(k) == k % SeparatorEvery = 0

entry_line(k, id) == [kind |-> "entry", index |-> k, id |-> id]
separator_line == [kind |-> "separator", index |-> 0, id |-> ""]

----------------------------------------------------------------------------
\* main: the pipeline

Init ==
    /\ pc = "validate"
    /\ outcome = "running"
    /\ min_length \in Thresholds
    /\ records = <<>>
    /\ total_count = 0
    /\ long_count = 0
    /\ long_ids = <<>>
    /\ all_lengths = <<>>
    /\ report_file = "absent"
    /\ sections = <<>>
    /\ summary = NoSummary
    /\ stats = NoStats
    /\ bin_counts = <<>>
    /\ bi = 0
    /\ dist_lines = <<>>
    /\ id_lines = <<>>
    /\ li = 0

\* if not os.path.isfile(args.input): print the error and sys.exit(1);
\* otherwise count_long_sequences starts with its counters at zero.
Validate ==
    /\ pc = "validate"
    /\ \E is_file \in BOOLEAN :
          IF is_file
          THEN /\ pc' = "analyse"
               /\ outcome' = outcome
          ELSE /\ pc' = "done"
               /\ outcome' = "exit1"
    /\ UNCHANGED <<min_length, records, analysis, written, loops>>

\* One iteration of "for record in SeqIO.parse(...)": the parser yields the
\* next record and the loop body runs on it.
ParseRecord ==
    /\ pc = "analyse"
    /\ total_count < MaxRecords
    /\ \E id \in Ids, seq \in Bodies :
          LET length == seq_length(seq)
          IN  /\ records' = Append(records, [id |-> id, seq |-> seq])
              /\ total_count' = total_count + 1
              /\ all_lengths' = Append(all_lengths, length)
              /\ IF is_long(length, min_length)
                 THEN /\ long_count' = long_count + 1
                      /\ long_ids' = append_id(long_ids, id)
                 ELSE UNCHANGED <<long_count, long_ids>>
    /\ UNCHANGED <<pc, outcome, min_length, written, loops>>

\* The parser raises while reading (the input cannot be read, or is not in
\* the record format): nothing in main catches it.
ParseFail ==
    /\ pc = "analyse"
    /\ \E kind \in {"IOError", "FormatError"} : outcome' = kind
    /\ pc' = "done"
    /\ UNCHANGED <<min_length, records, analysis, written, loops>>

\* The parser is exhausted: return long_count, total_count, long_ids,
\* all_lengths.
ParseEnd ==
    /\ pc = "analyse"
    /\ pc' = "returned"
    /\ UNCHANGED <<outcome, min_length, records, analysis, written, loops>>

plot_never_raises(lengths) == FALSE

\* plot_length_distribution takes min(all_lengths) and max(all_lengths):
\* ValueError on an empty list.
plot_raises(lengths) == lengths = <<>>

\* plot_length_distribution(all_lengths, ...).  The record objects of the
\* finished pass are gone once main goes on.
Plot ==
    /\ pc = "returned"
    /\ IF plot_raises(all_lengths)
       THEN /\ pc' = "done"
            /\ outcome' = "ValueError"
       ELSE /\ pc' = "report"
            /\ outcome' = outcome
    /\ records' = <<>>
    /\ UNCHANGED <<min_length, analysis, written, loops>>

\* generate_report up to the headline figures: the percentage, makedirs,
\* open(args.output, "w"), the header block, total, long count, percentage.
OpenReport ==
    /\ pc = "report"
    /\ report_file' = "open"
    /\ sections' = <<"header", "summary">>
    /\ summary' = summary_of(long_count, total_count)
    /\ pc' = "opened"
    /\ UNCHANGED <<outcome, min_length, records, analysis, stats, dist_lines,
                   id_lines, loops>>

\* The global statistics, then bins, labels and bin_counts = [0] * len(bins).
\* min() of an empty list raises inside the with block: the file is closed
\* holding what was written so far.
WriteStats ==
    /\ pc = "opened"
    /\ IF all_lengths = <<>>
       THEN /\ pc' = "done"
            /\ outcome' = "ValueError"
            /\ report_file' = "partial"
            /\ UNCHANGED <<sections, stats, bin_counts>>
       ELSE /\ pc' = "bin"
            /\ outcome' = outcome
            /\ report_file' = report_file
            /\ sections' = sections \o <<"stats", "distribution">>
            /\ stats' = stats_of(all_lengths)
            /\ bin_counts' = [i \in 1..Len(bins(min_length)) |-> 0]
    /\ bi' = 0
    /\ UNCHANGED <<min_length, records, analysis, summary, dist_lines,
                   id_lines, li>>

\* One iteration of "for length in all_lengths".
BinStep ==
    /\ pc = "bin"
    /\ bi < Len(all_lengths)
    /\ bin_counts' = bin_update(bin_counts, bins(min_length), all_lengths[bi + 1])
    /\ bi' = bi + 1
    /\ UNCHANGED <<pc, outcome, min_length, records, analysis, written, li>>

\* The distribution rows (count / total_count raises ZeroDivisionError when
\* total_count is 0), then the heading of the identifier listing.
WriteDist ==
    /\ pc = "bin"
    /\ bi = Len(all_lengths)
    /\ IF total_count = 0
       THEN /\ pc' = "done"
            /\ outcome' = "ZeroDivisionError"
            /\ report_file' = "partial"
            /\ UNCHANGED <<sections, dist_lines>>
       ELSE /\ pc' = "ids"
            /\ outcome' = outcome
            /\ report_file' = report_file
            /\ dist_lines' = dist_rows(labels(min_length), bin_counts, total_count)
            /\ sections' = sections \o <<"ids">>
    /\ li' = 0
    /\ UNCHANGED <<min_length, records, analysis, summary, stats, id_lines,
                   bin_counts, bi>>

\* One iteration of "for i, seq_id in enumerate(long_ids)".
ListStep ==
    /\ pc = "ids"
    /\ li < Len(long_ids)
    /\ LET k == li + 1
       IN  id_lines' = id_lines \o <<entry_line(k, long_ids[k])>>
                          \o (IF separator_due(k) THEN <<separator_line>>
                              ELSE <<>>)
    /\ li' = li + 1
    /\ UNCHANGED <<pc, outcome, min_length, records, analysis, report_file,
                   sections, summary, stats, dist_lines, bin_counts, bi>>

\* The with block ends, generate_report returns its message.
CloseReport ==
    /\ pc = "ids"
    /\ li = Len(long_ids)
    /\ report_file' = "closed"
    /\ pc' = "summary"
    /\ UNCHANGED <<outcome, min_length, records, analysis, sections, summary,
                   stats, dist_lines, id_lines, loops>>

\* The summary printed on the terminal; main returns.
PrintSummary ==
    /\ pc = "summary"
    /\ pc' = "done"
    /\ outcome' = "ok"
    /\ UNCHANGED <<min_length, records, analysis, written, loops>>

Next ==
    \/ Validate
    \/ ParseRecord
    \/ ParseFail
    \/ ParseEnd
    \/ Plot
    \/ OpenReport
    \/ WriteStats
    \/ BinStep
    \/ WriteDist
    \/ ListStep
    \/ CloseReport
    \/ PrintSummary

Spec == Init /\ [][Next]_vars

----------------------------------------------------------------------------
\* The binning loop on lengths of real size.  SpecBin starts where
\* generate_report has written the statistics and built bins and bin_counts,
\* for every list of up to MaxLens sample lengths and every sample threshold.

LengthLists == UNION { [1..n -> LengthSamples] : n \in 1..MaxLens }

long_positions(lengths, threshold) ==
    { k \in DOMAIN lengths : is_long(lengths[k], threshold) }

InitBin ==
    /\ pc = "bin"
    /\ outcome = "running"
    /\ min_length \in ThresholdSamples
    /\ records = <<>>
    /\ all_lengths \in LengthLists
    /\ total_count = Len(all_lengths)
    /\ long_count = Cardinality(long_positions(all_lengths, min_length))
    /\ long_ids = [k \in 1..long_count |-> "seq1"]
    /\ report_file = "open"
    /\ sections = <<"header", "summary", "stats", "distribution">>
    /\ summary = summary_of(long_count, total_count)
    /\ stats = stats_of(all_lengths)
    /\ bin_counts = [i \in 1..Len(bins(min_length)) |-> 0]
    /\ bi = 0
    /\ dist_lines = <<>>
    /\ id_lines = <<>>
    /\ li = 0

NextBin ==
    \/ BinStep
    \/ WriteDist

SpecBin == InitBin /\ [][NextBin]_vars

----------------------------------------------------------------------------
\* The identifier listing on lists long enough for separators.  SpecList
\* starts where generate_report has written the heading of the listing: one
\* short record, then n long records whose identifiers repeat with a stride.

ListIds == <<"seq1", "seq2", "seq3">>
Strides == {1, 2}

\* One record of length 0, then n records of length 5, under threshold 4.
list_lengths(n) == <<0>> \o [k \in 1..n |-> 5]

list_id(stride, k) == ListIds[((k * stride) % Len(ListIds)) + 1]

InitList ==
    \E n \in 0..MaxIds, stride \in Strides :
        /\ pc = "ids"
        /\ outcome = "running"
        /\ min_length = 4
        /\ records = <<>>
        /\ all_lengths = list_lengths(n)
        /\ total_count = n + 1
        /\ long_count = n
        /\ long_ids = [k \in 1..n |-> list_id(stride, k)]
        /\ report_file = "open"
        /\ sections = <<"header", "summary", "stats", "distribution", "ids">>
        /\ summary = summary_of(n, n + 1)
        /\ stats = stats_of(all_lengths)
        /\ bin_counts = [i \in 1..Len(bins(4)) |->
                            IF i = 1 THEN n + 1 ELSE 0]
        /\ bi = n + 1
        /\ dist_lines = dist_rows(labels(4), bin_counts, n + 1)
        /\ id_lines = <<>>
        /\ li = 0

NextList ==
    \/ ListStep
    \/ CloseReport

SpecList == InitList /\ [][NextList]_vars

----------------------------------------------------------------------------
\* Properties

\* The number of characters of a body that are not the gap character.
NonGapCount(seq) == Cardinality({ i \in DOMAIN seq : seq[i] # "-" })

\* A body with its gap characters left out.
NonGapResidues(seq) == SelectSeq(seq, LAMBDA c : c # "-")

\* The six ranges as section 4.3 lists them, for threshold t.
InListedRange(i, t, l) ==
    CASE i = 1 -> 0 <= l /\ l < 100
      [] i = 2 -> 100 <= l /\ l < 300
      [] i = 3 -> 300 <= l /\ l < t
      [] i = 4 -> t <= l /\ l < 500
      [] i = 5 -> 500 <= l /\ l < 1000
      [] i = 6 -> 1000 <= l

\* Whether range i is empty or inverted (lower >= upper).
EmptyRange(i, t) ==
    CASE i = 3 -> 300 >= t
      [] i = 4 -> t >= 500
      [] OTHER -> FALSE

ReportedCounts == [ i \in DOMAIN dist_lines |-> dist_lines[i].count ]

\* C1: during and after the binning loop every handled length is counted
\* in one of the six reported buckets: the first six counters sum to the
\* number of lengths handled, and the six reported counts sum to total_count.
C1_BucketSumIsTotal ==
    /\ pc = "bin" =>
          /\ SumSeq(SubSeq(bin_counts, 1, 6)) = bi
          /\ bi = Len(all_lengths) =>
                SumSeq(SubSeq(bin_counts, 1, 6)) = total_count
    /\ pc = "ids" =>
          /\ Len(dist_lines) = 6
          /\ SumSeq(ReportedCounts) = total_count

\* A degenerate threshold (600) with a length inside the inverted range
\* [600, 500) has been binned and reported.
C1_Witness ==
    /\ pc = "ids"
    /\ min_length = 600
    /\ \E k \in DOMAIN all_lengths : all_lengths[k] = 550
    /\ SumSeq(ReportedCounts) = Len(all_lengths)

\* C2: one iteration of the binning loop increments exactly one counter,
\* that of the first of the six listed ranges holding the length; a length
\* of 1000 or more that no earlier range holds goes to the sixth.
C2_FirstMatchingBucket ==
    [][ bi' = bi + 1 =>
          LET l == all_lengths[bi']
              t == min_length
          IN  \E i \in 1..6 :
                 /\ InListedRange(i, t, l)
                 /\ \A j \in 1..(i - 1) : ~InListedRange(j, t, l)
                 /\ bin_counts' = [bin_counts EXCEPT ![i] = @ + 1]
                 /\ (l >= 1000 /\ \A j \in 1..5 : ~InListedRange(j, t, l)) => i = 6
      ]_vars

\* A length of 1200 has just been counted in the sixth bucket, and under
\* threshold 50 a length of 60 (in [0,100) and in [50,500)) in the first.
C2_Witness ==
    /\ pc = "bin"
    /\ bi = 2
    /\ min_length = 50
    /\ all_lengths = <<60, 1200>>
    /\ bin_counts = <<1, 0, 0, 0, 0, 1, 0>>

\* C3: count_long_sequences never hands its caller a result with
\* total_count = 0 (it ends in an empty-corpus error instead).
C3_EmptyCorpusRaises ==
    pc = "returned" => total_count > 0

\* C4: a run that ends in a failure has written nothing to the report.
C4_NoPartialReportOnFailure ==
    outcome \notin {"running", "ok"} =>
        /\ report_file = "absent"
        /\ sections = <<>>

\* A run on an input without records has failed.
C4_Witness ==
    /\ pc = "done"
    /\ outcome = "ValueError"
    /\ total_count = 0
    /\ report_file = "absent"

\* C5: long_count is the length of long_ids and the number of lengths
\* strictly above the threshold.
C5_LongCountStrict ==
    /\ long_count = Len(long_ids)
    /\ long_count =
          Cardinality({ k \in DOMAIN all_lengths : all_lengths[k] > min_length })

\* A record whose length equals the threshold was not counted, one above
\* it was.
C5_Witness ==
    /\ pc = "returned"
    /\ all_lengths = <<min_length, min_length + 2>>
    /\ long_count = 1

\* C6: the six ranges are pairwise disjoint and ascending, and each
\* reported count is the number of lengths within the bounds of its label.
C6_BucketsPartition ==
    pc = "ids" =>
        /\ \A i \in 1..5 :
              ~dist_lines[i].label.hi.inf /\
              dist_lines[i].label.hi.v <= dist_lines[i + 1].label.lo.v
        /\ \A i \in 1..6 :
              dist_lines[i].count =
                 Cardinality({ k \in DOMAIN all_lengths :
                     /\ EdgeLe(dist_lines[i].label.lo, all_lengths[k])
                     /\ LtEdge(all_lengths[k], dist_lines[i].label.hi) })

\* C7: the length recorded for a record is the number of characters of its
\* body other than '-', and bodies with the same residues in the same order
\* get the same length wherever their gaps are.
C7_NormalizedLength ==
    /\ \A k \in DOMAIN records :
          all_lengths[k] = NonGapCount(records[k].seq)
    /\ \A j, k \in DOMAIN records :
          NonGapResidues(records[j].seq) = NonGapResidues(records[k].seq)
             => all_lengths[j] = all_lengths[k]

\* "AC--GT" and "ACGT--" were both recorded with length 4.
C7_Witness ==
    /\ Len(records) = 2
    /\ records[1].seq = <<"A", "C", "-", "-", "G", "T">>
    /\ records[2].seq = <<"A", "C", "G", "T", "-", "-">>
    /\ all_lengths = <<4, 4>>

\* C8: a bucket whose range is empty or inverted keeps count 0 and the
\* binning raises nothing: [300,t) when t <= 300, [t,500) when t >= 500.
C8_InvertedRangeEmpty ==
    /\ pc = "bin" =>
          /\ outcome = "running"
          /\ \A i \in 1..6 : EmptyRange(i, min_length) => bin_counts[i] = 0
    /\ pc = "ids" =>
          /\ outcome = "running"
          /\ \A i \in 1..6 :
                EmptyRange(i, min_length) => dist_lines[i].count = 0

\* Threshold 300 with lengths on and above 300 reported: [300,300) is empty.
C8_Witness ==
    /\ pc = "ids"
    /\ min_length = 300
    /\ all_lengths = <<300, 350>>
    /\ dist_lines[3].count = 0
    /\ dist_lines[4].count = 2

\* The identifiers of the long records among rs, in order.
RECURSIVE LongIdsOf(_, _)
LongIdsOf(rs, t) ==
    IF rs = <<>> THEN <<>>
    ELSE LET r == rs[Len(rs)]
             before == LongIdsOf(SubSeq(rs, 1, Len(rs) - 1), t)
         IN  IF NonGapCount(r.seq) > t THEN before \o <<r.id>> ELSE before

\* C9: throughout the pass and at its return, total_count = len(all_lengths)
\* = number of records parsed, all_lengths[k] is the normalized length of
\* the k-th record, and long_ids lists the long records' identifiers in
\* parse order, duplicates kept.
C9_SinglePassAccumulation ==
    /\ total_count = Len(all_lengths)
    /\ pc \in {"analyse", "returned"} =>
          /\ Len(records) = total_count
          /\ \A k \in DOMAIN records :
                all_lengths[k] = NonGapCount(records[k].seq)
          /\ long_ids = LongIdsOf(records, min_length)

\* Two long records with the same identifier after a pass; both are listed.
C9_Witness ==
    /\ pc = "returned"
    /\ Len(records) = 2
    /\ records[1].id = "seq2"
    /\ records[2].id = "seq2"
    /\ long_ids = <<"seq2", "seq2">>

Separators == { p \in DOMAIN id_lines : id_lines[p].kind = "separator" }

\* C10: after li identifiers the listing holds, for k = 1..li, entry k with
\* index k and the k-th identifier, a separator right after entry k exactly
\* when 50 divides k, so li \div 50 separators; long_ids holds identifiers
\* only and keeps its length.
C10_ListingSeparators ==
    pc \in {"ids", "summary"} =>
        /\ Len(id_lines) = li + (li \div 50)
        /\ \A k \in 1..li :
              LET p == k + ((k - 1) \div 50)
              IN  /\ id_lines[p] = [kind |-> "entry", index |-> k, id |-> long_ids[k]]
                  /\ (k % 50 = 0) <=> (/\ p < Len(id_lines)
                                       /\ id_lines[p + 1].kind = "separator")
        /\ Cardinality(Separators) = li \div 50
        /\ Len(long_ids) = long_count
        /\ \A k \in DOMAIN long_ids :
              \E j \in DOMAIN ListIds : long_ids[k] = ListIds[j]

\* A list of exactly 100 identifiers was rendered: two separators, the
\* second one after the last entry.
C10_Witness ==
    /\ pc = "summary"
    /\ Len(long_ids) = 100
    /\ Cardinality(Separators) = 2
    /\ id_lines[Len(id_lines)].kind = "separator"

====
